---- MODULE Spec2Model ----
(***************************************************************************)
(* Model of scripts/validator.py (gasby-co/skill-schema): the four check   *)
(* functions, the schema locator, the nested document loaders and the      *)
(* orchestrator main().                                                    *)
(*                                                                         *)
(* Strings are sequences of atoms.  An atom is an indivisible chunk of     *)
(* text ("/", ".json", "_example", "skill_profile", ...); every string of  *)
(* the model is tokenised the same way, so startswith / endswith / "in" /  *)
(* split('/') of the Python code are prefix / suffix / contiguous          *)
(* subsequence / split on the "/" atom.  ".jsonld" is <<".json","ld">>, so *)
(* "_example.json" is a substring of "_example.jsonld" as in Python.       *)
(***************************************************************************)
EXTENDS Integers, Sequences, FiniteSets, TLC

(***************************************************************************)
(* Bounds of the model.                                                    *)
(***************************************************************************)
MaxArgs == 2

MaxDocs == 2

(***************************************************************************)
(* str methods                                                             *)
(***************************************************************************)
Slash == "/"

S(a) == <<a>>

startswith(s, p) == Len(s) >= Len(p) /\ SubSeq(s, 1, Len(p)) = p

endswith(s, p) == Len(s) >= Len(p) /\ SubSeq(s, Len(s) - Len(p) + 1, Len(s)) = p

contains(s, p) == \E i \in 1..(Len(s) - Len(p) + 1) : SubSeq(s, i, i + Len(p) - 1) = p

RECURSIVE SplitFrom(_, _, _)
SplitFrom(s, i, cur) ==
    IF i > Len(s) THEN <<cur>>
    ELSE IF s[i] = Slash THEN <<cur>> \o SplitFrom(s, i + 1, <<>>)
    ELSE SplitFrom(s, i + 1, Append(cur, s[i]))

\* the string is bound to its value once: operator arguments are otherwise
\* evaluated at each use
split(s) == CHOOSE r \in {SplitFrom(v, 1, <<>>) : v \in {s}} : TRUE

\* index of the last "/" atom of s, 0 when there is none (str.rfind + 1)
RECURSIVE rfindSlash(_, _)
rfindSlash(s, i) == IF i = 0 THEN 0 ELSE IF s[i] = Slash THEN i ELSE rfindSlash(s, i - 1)

RECURSIVE rstripSlash(_)
rstripSlash(s) == IF s # <<>> /\ s[Len(s)] = Slash THEN rstripSlash(SubSeq(s, 1, Len(s) - 1)) ELSE s

(***************************************************************************)
(* os.path (posixpath)                                                     *)
(***************************************************************************)
isabs(p) == startswith(p, S(Slash))

join(a, b) ==
    CHOOSE r \in {IF isabs(y) THEN y
                  ELSE IF x = <<>> \/ endswith(x, S(Slash)) THEN x \o y
                  ELSE x \o S(Slash) \o y : x \in {a}, y \in {b}} : TRUE

join3(a, b, c) == join(join(a, b), c)

join4(a, b, c, d) == join(join(join(a, b), c), d)

basename(p) == CHOOSE r \in {SubSeq(v, rfindSlash(v, Len(v)) + 1, Len(v)) : v \in {p}} : TRUE

dirname(p) ==
    CHOOSE r \in {IF head # <<>> /\ rstripSlash(head) # <<>> THEN rstripSlash(head) ELSE head :
                     head \in {SubSeq(v, 1, rfindSlash(v, Len(v))) : v \in {p}}} : TRUE

\* one turn of normpath's loop over the components: new_comps after comp
normStep(new, comp, initial) ==
    IF comp = <<>> \/ comp = S(".") THEN new
    ELSE IF comp # S("..") \/ (~initial /\ new = <<>>)
               \/ (new # <<>> /\ new[Len(new)] = S(".."))
         THEN Append(new, comp)
    ELSE IF new # <<>> THEN SubSeq(new, 1, Len(new) - 1)
    ELSE new

RECURSIVE normComps(_, _, _, _)
normComps(comps, i, initial, new) ==
    IF i > Len(comps) THEN new
    ELSE CHOOSE r \in {normComps(comps, j, initial, nxt) :
                          nxt \in {normStep(new, comps[i], initial)}, j \in {i + 1}} : TRUE

RECURSIVE joinSlash(_, _)
joinSlash(comps, i) ==
    IF i > Len(comps) THEN <<>>
    ELSE IF i = Len(comps) THEN comps[i]
    ELSE comps[i] \o S(Slash) \o joinSlash(comps, i + 1)

normpath(p) ==
    LET initial(v) == startswith(v, S(Slash))
        two(v)     == startswith(v, <<Slash, Slash>>) /\ ~startswith(v, <<Slash, Slash, Slash>>)
        pre(v)     == IF two(v) THEN <<Slash, Slash>> ELSE IF initial(v) THEN S(Slash) ELSE <<>>
    IN  CHOOSE out \in {IF v = <<>> \/ pre(v) \o joinSlash(new, 1) = <<>> THEN S(".")
                        ELSE pre(v) \o joinSlash(new, 1) :
                           <<v, new>> \in {<<w[1], normComps(w[2], 1, initial(w[1]), <<>>)>> :
                                              w \in {<<u, split(u)>> : u \in {p}}}} : TRUE

(***************************************************************************)
(* Text and paths of the modelled corpus.  The process runs with the       *)
(* project root /proj as working directory and the script is               *)
(* /proj/scripts/validator.py, the layout validator.py assumes (its        *)
(* comments at lines 76 and 203, and base_dir="." at line 453).            *)
(***************************************************************************)
P2(a, b) == a \o S(Slash) \o b

ROOT == S(Slash) \o S("proj")

CWD == ROOT

FILE == <<Slash, "proj", Slash, "scripts", Slash, "validator", ".py">>

LEGACY_PREFIX ==
    <<"https:", Slash, Slash, "raw.githubusercontent.com", Slash, "ModelContext", Slash,
      "skill-schema", Slash, "main", Slash, "contexts", Slash>>

EXAMPLE_JSON == <<"_example", ".json">>

EXAMPLE_JSONLD == <<"_example", ".json", "ld">>

DOT_JSON == <<".json">>

DOT_JSONLD == <<".json", "ld">>

SCHEMA_SUFFIX == <<".schema", ".json">>

SkillExampleName == <<"skill_profile", "_example", ".json">>

RepoExampleName == <<"repo_profile", "_example", ".json">>

CodeExampleName == <<"code_classification", "_example", ".json">>

SkillContextName == <<"skill_profile", "_context", ".json", "ld">>

RepoContextName == <<"repo_profile", "_context", ".json", "ld">>

CodeContextName == <<"code_classification", "_context", ".json", "ld">>

abspath(p) ==
    CHOOSE r \in {IF isabs(v) THEN normpath(v) ELSE normpath(join(CWD, v)) : v \in {p}} : TRUE

\* PROJECT_ROOT_FOR_CONTEXTS of check_context_utilization
PROJECT_ROOT_FOR_CONTEXTS == abspath(join(dirname(FILE), S("..")))

(***************************************************************************)
(* File contents.  A document is what json.load makes of the file:         *)
(*   kind     "bad" (not JSON), "array" (valid JSON, top level not an      *)
(*            object), "object";                                           *)
(*   form/ref the value at '@context' of an object: "absent", "empty"      *)
(*            ({}), "inline" (a non-empty mapping), "ref" (the string ref);*)
(*   expands  whether the JSON-LD engine expands the document once its     *)
(*            context is loaded (the engine is an external library);       *)
(*   valid    whether the JSON Schema validator accepts the instance.      *)
(***************************************************************************)
Doc(kind, form, ref, expands, valid) ==
    [kind |-> kind, form |-> form, ref |-> ref, expands |-> expands, valid |-> valid]

Bad == Doc("bad", "absent", <<>>, FALSE, FALSE)

Arr == Doc("array", "absent", <<>>, TRUE, FALSE)

Obj(ref) == Doc("object", "ref", ref, TRUE, TRUE)

ContextDoc == Doc("object", "inline", <<>>, TRUE, TRUE)

SchemaDoc == Doc("object", "absent", <<>>, TRUE, TRUE)

\* context references used by the documents of the corpus
RefBare == SkillContextName

RefRel == <<"..", Slash, "contexts", Slash>> \o SkillContextName

RefAbs == ROOT \o <<Slash, "contexts", Slash>> \o SkillContextName

RefLegacy == LEGACY_PREFIX \o SkillContextName

RefLegacyE == LEGACY_PREFIX \o S("e.ctx")

RefLegacyMissing == LEGACY_PREFIX \o S("missing.ctx")

RefC == S("c.ctx")

RefD == S("d.ctx")

RefE == S("e.ctx")

RefMissing == S("missing.ctx")

\* the document files a corpus may hold
D1 == ROOT \o <<Slash, "examples", Slash>> \o SkillExampleName

D2 == ROOT \o <<Slash, "examples", Slash, "x", "_example", ".json", "ld">>

D3 == ROOT \o <<Slash, "data", Slash, "x", "_example", ".json", ".d", Slash, "n", ".json">>

D4 == ROOT \o <<Slash, "examples", Slash, "_example", ".json">>

D5 == ROOT \o <<Slash, "data", Slash, "n", ".json", "ld">>

DocPaths == {D1, D2, D3, D4, D5}

\* contents tried for a document that is alone in the corpus
FocusContents(d) ==
    IF d = D1 THEN
        {Bad, Arr, Obj(RefBare), Obj(RefRel), Obj(RefAbs), Obj(RefLegacy), Obj(RefC),
         Obj(RefMissing),
         Doc("object", "absent", <<>>, TRUE, TRUE),
         Doc("object", "empty", <<>>, TRUE, TRUE),
         Doc("object", "inline", <<>>, TRUE, FALSE),
         Doc("object", "ref", RefBare, FALSE, FALSE),
         Doc("object", "ref", RefC, FALSE, TRUE)}
    ELSE IF d = D2 THEN
        {Bad, Arr, Obj(RefC), Obj(RefD), Obj(RefE), Obj(RefMissing), Obj(RefLegacyE),
         Obj(RefLegacyMissing), Obj(RefAbs),
         Doc("object", "ref", RefE, FALSE, FALSE)}
    ELSE IF d = D5 THEN {Bad, Arr, Obj(RefE), Obj(RefMissing)}
    ELSE {Bad, Arr, Obj(RefE)}

\* contents tried for the documents of a corpus of several
CoarseContents(d) ==
    IF d = D1 THEN {Bad, Obj(RefBare)}
    ELSE IF d = D2 THEN {Arr, Obj(RefE)}
    ELSE {Obj(RefE)}

\* the context files, always present
ContextFiles ==
    {P2(ROOT, P2(S("contexts"), n)) : n \in {SkillContextName, S("c.ctx"), S("d.ctx"), S("e.ctx")}}
    \cup {P2(ROOT, S("c.ctx")),
          P2(ROOT, P2(S("examples"), S("c.ctx"))),
          P2(ROOT, P2(S("examples"), S("d.ctx")))}

\* the schema files, present or not as a whole
SchemaFiles ==
    {P2(ROOT, P2(S("schemas"), n \o SCHEMA_SUFFIX)) : n \in {S("skill_profile"), S("x"), <<>>}}

SchemaStates == {"none", "good", "bad", "invalid"}

(***************************************************************************)
(* State.                                                                  *)
(*   docs, schemas   the corpus on disk (never written by the program)     *)
(*   paths, flags    the command line: args.paths and the --run-* flags    *)
(*   the rest        the locals of main(), its position pc and the exit    *)
(*                   status of the process; last is the outcome of the     *)
(*                   latest call of a check function                       *)
(*   log             the calls made so far, in the order main() made them  *)
(***************************************************************************)
VARIABLES docs, schemas, paths, flags, pc, files_to_process, example_files, jsonld_files,
          idx, current, total, last, summary, exit_code, log

vars == <<docs, schemas, paths, flags, pc, files_to_process, example_files, jsonld_files,
          idx, current, total, last, summary, exit_code, log>>

(***************************************************************************)
(* The filesystem                                                          *)
(***************************************************************************)
Files == ContextFiles \cup DOMAIN docs \cup (IF schemas = "none" THEN {} ELSE SchemaFiles)

\* the directories: those of the project layout, and every ancestor of a file
ProjectDirs ==
    {S(Slash), ROOT} \cup {P2(ROOT, S(n)) : n \in {"examples", "data", "schemas", "contexts", "scripts"}}

IsDir(a) ==
    a \in ProjectDirs \/ \E f \in Files : startswith(f, a \o S(Slash))

content(p) ==
    CHOOSE r \in {IF a \in DOMAIN docs THEN docs[a]
                  ELSE IF a \in ContextFiles THEN ContextDoc
                  ELSE IF schemas = "bad" THEN Bad
                  ELSE IF schemas = "invalid" THEN Doc("object", "absent", <<>>, TRUE, FALSE)
                  ELSE SchemaDoc : a \in {abspath(p)}} : TRUE

isfile(p) == \E v \in {p} : v # <<>> /\ abspath(v) \in Files

isdir(p) == \E v \in {p} : v # <<>> /\ IsDir(abspath(v))

exists(p) == \E v \in {p} : v # <<>> /\ \E a \in {abspath(v)} : a \in Files \/ IsDir(a)

\* names glob's "*" does not match: those that begin with a dot
DotAtoms == {".", "..", ".d", ".json", ".py", ".schema"}

IsHidden(comp) == comp # <<>> /\ comp[1] \in DotAtoms

\* glob.glob(os.path.join(path_arg, '**/*' + ext), recursive=True)
glob(path_arg, ext) ==
    LET rel(f, pre) == SubSeq(f, Len(pre) + 1, Len(f))
        seen(f, pre) == \E c \in {split(rel(f, pre))} : \A i \in 1..Len(c) : ~IsHidden(c[i])
    IN  UNION {{join(path_arg, rel(f, pre)) :
                   f \in {g \in Files : startswith(g, pre) /\ seen(g, pre) /\ endswith(g, ext)}} :
               pre \in {IF base = S(Slash) THEN base ELSE base \o S(Slash) :
                           base \in {abspath(path_arg)}}}

(***************************************************************************)
(* sorted(): Python orders strings by code point.  AtomOrder lists the     *)
(* atoms that occur in file paths in that order.                           *)
(***************************************************************************)
AtomOrder ==
    <<".", "..", ".d", ".json", ".py", ".schema", "/", "_context", "_example", "c.ctx",
      "contexts", "d.ctx", "data", "e.ctx", "examples", "ld", "n", "proj", "schemas",
      "scripts", "skill_profile", "validator", "x">>

rank(a) == CHOOSE i \in 1..Len(AtomOrder) : AtomOrder[i] = a

RECURSIVE lessFrom(_, _, _)
lessFrom(a, b, i) ==
    IF i > Len(a) THEN i <= Len(b)
    ELSE IF i > Len(b) THEN FALSE
    ELSE IF a[i] = b[i] THEN lessFrom(a, b, i + 1)
    ELSE rank(a[i]) < rank(b[i])

less(a, b) == lessFrom(a, b, 1)

\* variant of sorted: the greatest first
RECURSIVE sorted_descending(_)
sorted_descending(set) ==
    CHOOSE r \in {IF v = {} THEN <<>>
                  ELSE LET m == CHOOSE x \in v : \A y \in v \ {x} : less(y, x)
                       IN  <<m>> \o sorted_descending(v \ {m}) : v \in {set}} : TRUE

RECURSIVE sorted(_)
sorted(set) ==
    CHOOSE r \in {IF v = {} THEN <<>>
                  ELSE LET m == CHOOSE x \in v : \A y \in v \ {x} : less(x, y)
                       IN  <<m>> \o sorted(v \ {m}) : v \in {set}} : TRUE

(***************************************************************************)
(* Outcomes.  A message is a sequence of parts, each a string: literal     *)
(* text is a one-atom string, an interpolated path or reference is the     *)
(* string itself.  "" is the empty sequence.                               *)
(***************************************************************************)
None == <<>>

T(text) == <<S(text)>>

NoLoad == [called |-> FALSE, loader |-> "none", url |-> <<>>, ok |-> FALSE, path |-> <<>>,
           err |-> <<>>]

\* what a check function hands back: the pair (ok, msg), or an exception
\* that leaves the function (raised); load is the document loader's call
Ret(ok, msg, load) == [ok |-> ok, msg |-> msg, raised |-> FALSE, load |-> load]

Raise(msg) == [ok |-> FALSE, msg |-> msg, raised |-> TRUE, load |-> NoLoad]

str(x) == IF x = None THEN S("None") ELSE x

\* the way '{actual_context}' prints
shown(data) == IF data.form = "ref" THEN data.ref ELSE S("{...}")

(***************************************************************************)
(* validate_json_syntax                                                    *)
(***************************************************************************)
validate_json_syntax(file_path) ==
    IF ~exists(file_path) THEN Ret(FALSE, T("Error: File not found."), NoLoad)
    ELSE IF ~isfile(file_path)
    THEN Ret(FALSE, T("An unexpected error occurred during JSON syntax validation: "), NoLoad)
    ELSE IF content(file_path).kind = "bad"
    THEN Ret(FALSE, T("Syntax error: "), NoLoad)
    ELSE Ret(TRUE, <<>>, NoLoad)

(***************************************************************************)
(* The JSON-LD engine: jsonld.expand(doc, {'documentLoader': loader})      *)
(* asks the loader for the document's '@context' when it is a reference,   *)
(* and fails when the loader fails.                                        *)
(***************************************************************************)
\* the loaders' common tail: load local_path if it exists, else raise
Loaded(name, url, local_path, suffix) ==
    CHOOSE r \in
        {IF exists(lp) /\ isfile(lp) /\ content(lp).kind # "bad"
         THEN [called |-> TRUE, loader |-> name, url |-> url, ok |-> TRUE,
               path |-> abspath(lp), err |-> <<>>]
         ELSE [called |-> TRUE, loader |-> name, url |-> url, ok |-> FALSE, path |-> <<>>,
               err |-> IF exists(lp)
                       THEN T("cannot load ") \o <<lp>>
                       ELSE T("Context URL ") \o <<url>> \o T(suffix)] :
            lp \in {local_path}} : TRUE

\* loaded is what the documentLoader returns for the document's '@context'
expand(data, loaded) ==
    CHOOSE r \in
        {[ok |-> (ld.called => ld.ok) /\ data.expands, load |-> ld,
          err |-> IF ld.called /\ ~ld.ok THEN ld.err ELSE T("invalid JSON-LD")] :
            ld \in {IF data.kind = "object" /\ data.form = "ref" THEN loaded ELSE NoLoad}} : TRUE

(***************************************************************************)
(* validate_jsonld_structure                                               *)
(***************************************************************************)
\* variant of local_document_loader: the contexts root is tried before the
\* reference as a literal path
local_document_loader_contexts_first(file_path, url) ==
    LET under == join4(dirname(FILE), S(".."), S("contexts"), url)
        local_path ==
            IF startswith(url, LEGACY_PREFIX)
            THEN join4(dirname(FILE), S(".."), S("contexts"), split(url)[Len(split(url))])
            ELSE IF exists(under) THEN under
            ELSE IF exists(url) THEN url
            ELSE join(dirname(file_path), url)
    IN  Loaded("structure", url, local_path, " could not be resolved to a local file.")

local_document_loader(file_path, url) ==
    LET local_path ==
            IF startswith(url, LEGACY_PREFIX)
            THEN join4(dirname(FILE), S(".."), S("contexts"), split(url)[Len(split(url))])
            ELSE IF exists(url) THEN url
            ELSE IF exists(join(dirname(file_path), url)) THEN join(dirname(file_path), url)
            ELSE join4(dirname(FILE), S(".."), S("contexts"), url)
    IN  Loaded("structure", url, local_path, " could not be resolved to a local file.")

\* variant of validate_jsonld_structure: an expansion failure is returned
\* without its message
validate_jsonld_structure_no_message(file_path) ==
    LET syntax == validate_json_syntax(file_path)
        doc    == content(file_path)
    IN  IF ~syntax.ok THEN Ret(FALSE, syntax.msg, NoLoad)
        ELSE CHOOSE r \in {IF e.ok THEN Ret(TRUE, <<>>, e.load) ELSE Ret(FALSE, <<>>, e.load) :
                              e \in {expand(doc, local_document_loader(file_path, doc.ref))}} : TRUE

validate_jsonld_structure(file_path) ==
    LET syntax == validate_json_syntax(file_path)
        doc    == content(file_path)
    IN  IF ~syntax.ok THEN Ret(FALSE, syntax.msg, NoLoad)
        ELSE CHOOSE r \in {IF e.ok THEN Ret(TRUE, <<>>, e.load)
                           ELSE Ret(FALSE, T("JSON-LD processing error: ") \o e.err, e.load) :
                              e \in {expand(doc, local_document_loader(file_path, doc.ref))}} : TRUE

(***************************************************************************)
(* map_example_to_schema, validate_with_schema                             *)
(***************************************************************************)
\* variant of map_example_to_schema: the derived path is returned without
\* looking for it on disk
map_example_to_schema_unchecked(example_file_path, base_dir) ==
    LET file_name == basename(example_file_path)
        schema_base_name ==
            IF endswith(file_name, EXAMPLE_JSON)
            THEN SubSeq(file_name, 1, Len(file_name) - Len(EXAMPLE_JSON))
            ELSE SubSeq(file_name, 1, Len(file_name) - Len(EXAMPLE_JSONLD))
    IN  IF ~endswith(file_name, EXAMPLE_JSON) /\ ~endswith(file_name, EXAMPLE_JSONLD) THEN None
        ELSE IF schema_base_name = <<>> THEN None
        ELSE join3(base_dir, S("schemas"), schema_base_name \o SCHEMA_SUFFIX)

map_example_to_schema(example_file_path, base_dir) ==
    LET file_name == basename(example_file_path)
        schema_base_name ==
            IF endswith(file_name, EXAMPLE_JSON)
            THEN SubSeq(file_name, 1, Len(file_name) - Len(EXAMPLE_JSON))
            ELSE SubSeq(file_name, 1, Len(file_name) - Len(EXAMPLE_JSONLD))
        schema_path == join3(base_dir, S("schemas"), schema_base_name \o SCHEMA_SUFFIX)
    IN  IF ~endswith(file_name, EXAMPLE_JSON) /\ ~endswith(file_name, EXAMPLE_JSONLD) THEN None
        ELSE IF schema_base_name = <<>> THEN None
        ELSE IF exists(schema_path) THEN schema_path
        ELSE None

validate_with_schema(example_file_path, schema_file_path) ==
    LET syntax == validate_json_syntax(example_file_path)
        example_data == content(example_file_path)
        schema_data  == content(schema_file_path)
    IN  IF ~syntax.ok THEN Ret(FALSE, syntax.msg, NoLoad)
        ELSE IF ~exists(schema_file_path)
        THEN Ret(FALSE, T("Schema file not found: ") \o <<schema_file_path>>, NoLoad)
        ELSE IF ~isfile(schema_file_path)
        THEN Ret(FALSE, T("Error reading schema file ") \o <<schema_file_path>>, NoLoad)
        ELSE IF schema_data.kind = "bad"
        THEN Ret(FALSE, T("Syntax error in schema file ") \o <<schema_file_path>>, NoLoad)
        ELSE IF ~schema_data.valid
        THEN Ret(FALSE, T("Invalid schema definition in ") \o <<schema_file_path>>, NoLoad)
        ELSE IF ~example_data.valid
        THEN Ret(FALSE, T("Schema validation error: "), NoLoad)
        ELSE Ret(TRUE, <<>>, NoLoad)

(***************************************************************************)
(* check_context_utilization                                               *)
(***************************************************************************)
\* the name-to-context table (lines 223-230); None when the name has no entry
expected_context_name(file_name) ==
    IF file_name = CodeExampleName THEN CodeContextName
    ELSE IF file_name = RepoExampleName THEN RepoContextName
    ELSE IF file_name = SkillExampleName THEN SkillContextName
    ELSE None

expected_local_context_path(file_name) ==
    normpath(join3(PROJECT_ROOT_FOR_CONTEXTS, S("contexts"), expected_context_name(file_name)))

local_document_loader_for_check(example_file_path, url) ==
    LET local_path ==
            IF startswith(url, LEGACY_PREFIX)
            THEN join3(PROJECT_ROOT_FOR_CONTEXTS, S("contexts"), split(url)[Len(split(url))])
            ELSE IF exists(url) THEN url
            ELSE IF exists(join(dirname(example_file_path), url))
            THEN join(dirname(example_file_path), url)
            ELSE join3(PROJECT_ROOT_FOR_CONTEXTS, S("contexts"), url)
    IN  Loaded("check", url, local_path, " could not be resolved to a local file.")

\* lines 270-287: the declared '@context' as a local path, None when no rule applies
normalized_actual_context_path(example_file_path, data) ==
    LET actual_context == data.ref
        path_relative_to_example ==
            normpath(join(dirname(example_file_path), actual_context))
        path_relative_to_project_contexts ==
            normpath(join3(PROJECT_ROOT_FOR_CONTEXTS, S("contexts"), actual_context))
    IN  IF data.form # "ref" THEN None
        ELSE IF isabs(actual_context) THEN normpath(actual_context)
        ELSE IF exists(path_relative_to_example) THEN path_relative_to_example
        ELSE IF exists(path_relative_to_project_contexts) THEN path_relative_to_project_contexts
        ELSE IF startswith(actual_context, LEGACY_PREFIX)
        THEN normpath(join3(PROJECT_ROOT_FOR_CONTEXTS, S("contexts"),
                            split(actual_context)[Len(split(actual_context))]))
        ELSE None

local_document_loader_for_mismatch(normalized, url) ==
    LET in_contexts == join3(PROJECT_ROOT_FOR_CONTEXTS, S("contexts"), url)
        actual_path_to_try ==
            IF normalized # None THEN normalized
            ELSE IF exists(in_contexts) THEN in_contexts
            ELSE IF exists(url) THEN url
            ELSE None
    IN  Loaded("mismatch", url, actual_path_to_try,
               " (from actual_context) could not be resolved to a local file for expansion.")

local_document_loader_for_expected(url) ==
    LET path_to_load ==
            IF exists(url) THEN url
            ELSE join3(PROJECT_ROOT_FOR_CONTEXTS, S("contexts"), url)
    IN  Loaded("expected", url, path_to_load,
               " (expected) could not be resolved to a local file.")

\* lines 233-261: the file name has no entry in the table
unmapped_context(example_file_path, data) ==
    LET file_name == basename(example_file_path)
        head == T("WARNING: No specific expected context mapping for ") \o <<file_name>>
    IN  CHOOSE r \in
            {IF e.ok
             THEN Ret(TRUE, head \o T(". Document expanded successfully with provided context '")
                                 \o <<shown(data)>> \o T("'."), e.load)
             ELSE Ret(FALSE, head \o T(". Expansion with provided context '") \o <<shown(data)>>
                                  \o T("' failed: ") \o e.err, e.load) :
                e \in {expand(data, local_document_loader_for_check(example_file_path,
                                                                     data.ref))}} : TRUE

\* variant of mismatched_context: a mismatched context that still expands
\* is accepted
mismatched_context_lenient(example_file_path, data) ==
    LET expected   == expected_local_context_path(basename(example_file_path))
        message(normalized) ==
            T("Context path mismatch: Expected '") \o <<expected>>
            \o T("', but found '") \o <<shown(data)>> \o T("' (resolved to '")
            \o <<str(normalized)>> \o T("').")
    IN  CHOOSE r \in
            {IF w[2].ok
             THEN Ret(TRUE, message(w[1]) \o T(" However, the document expanded successfully with the provided (mismatched) context."), w[2].load)
             ELSE Ret(FALSE, message(w[1]) \o T(" Additionally, JSON-LD expansion with the provided (mismatched) context failed: ") \o w[2].err, w[2].load) :
                w \in {<<normalized,
                         expand(data, local_document_loader_for_mismatch(normalized, data.ref))>> :
                          normalized \in {normalized_actual_context_path(example_file_path,
                                                                         data)}}} : TRUE

\* lines 290-312: the declared context is not the expected one
mismatched_context(example_file_path, data) ==
    LET expected   == expected_local_context_path(basename(example_file_path))
        message(normalized) ==
            T("Context path mismatch: Expected '") \o <<expected>>
            \o T("', but found '") \o <<shown(data)>> \o T("' (resolved to '")
            \o <<str(normalized)>> \o T("').")
    IN  CHOOSE r \in
            {IF w[2].ok
             THEN Ret(FALSE, message(w[1]) \o T(" However, the document expanded successfully with the provided (mismatched) context."), w[2].load)
             ELSE Ret(FALSE, message(w[1]) \o T(" Additionally, JSON-LD expansion with the provided (mismatched) context failed: ") \o w[2].err, w[2].load) :
                w \in {<<normalized,
                         expand(data, local_document_loader_for_mismatch(normalized, data.ref))>> :
                          normalized \in {normalized_actual_context_path(example_file_path,
                                                                         data)}}} : TRUE

\* lines 314-336: the declared context is the expected one
expected_context(example_file_path, data) ==
    LET expected == expected_local_context_path(basename(example_file_path))
    IN  CHOOSE r \in
            {IF e.ok THEN Ret(TRUE, <<>>, e.load)
             ELSE Ret(FALSE, T("JSON-LD expansion error (with expected context path '")
                             \o <<expected>> \o T("'): ") \o e.err, e.load) :
                e \in {expand(data, local_document_loader_for_expected(data.ref))}} : TRUE

\* variant of check_context_utilization: a syntax failure is reported in the
\* function's own words, as a later read failure is (line 216)
check_context_utilization_rewording(example_file_path, base_dir) ==
    LET syntax == validate_json_syntax(example_file_path)
        data == content(example_file_path)
        file_name == basename(example_file_path)
        normalized == normalized_actual_context_path(example_file_path, data)
    IN  IF ~syntax.ok
        THEN Ret(FALSE, T("Error reading example file ") \o <<example_file_path>>, NoLoad)
        ELSE IF data.kind # "object" THEN Raise(T("AttributeError: object has no attribute 'get'"))
        ELSE IF data.form \in {"absent", "empty"}
        THEN Ret(FALSE, T("Missing '@context' key in the example file."), NoLoad)
        ELSE IF expected_context_name(file_name) = None
        THEN unmapped_context(example_file_path, data)
        ELSE IF \E n \in {normalized} : n = None \/ n # expected_local_context_path(file_name)
        THEN mismatched_context(example_file_path, data)
        ELSE expected_context(example_file_path, data)

check_context_utilization(example_file_path, base_dir) ==
    LET syntax == validate_json_syntax(example_file_path)
        data == content(example_file_path)
        file_name == basename(example_file_path)
        normalized == normalized_actual_context_path(example_file_path, data)
    IN  IF ~syntax.ok THEN Ret(FALSE, syntax.msg, NoLoad)
        \* line 218: data.get on a list, a string, a number or None
        ELSE IF data.kind # "object" THEN Raise(T("AttributeError: object has no attribute 'get'"))
        ELSE IF data.form \in {"absent", "empty"}
        THEN Ret(FALSE, T("Missing '@context' key in the example file."), NoLoad)
        ELSE IF expected_context_name(file_name) = None
        THEN unmapped_context(example_file_path, data)
        ELSE IF \E n \in {normalized} : n = None \/ n # expected_local_context_path(file_name)
        THEN mismatched_context(example_file_path, data)
        ELSE expected_context(example_file_path, data)

(***************************************************************************)
(* main(): the command line                                                *)
(***************************************************************************)
Stages == {"syntax", "jsonld", "schema", "context"}

\* the path arguments tried
ArgExamples == S("examples")

ArgData == S("data")

ArgFile == P2(S("examples"), SkillExampleName)

ArgUniverse == {ArgExamples, ArgData, ArgFile}


\* the argument lists tried, up to MaxArgs arguments; main unites what each
\* argument adds (lines 366-379), so each list stands for its reorderings
\* and is tried in ascending order only
ArgLists ==
    UNION {{a \in [1..n -> ArgUniverse] : \A i, j \in 1..n : i < j => ~less(a[j], a[i])} :
              n \in 1..MaxArgs}

\* the corpora tried: one document with each of its contents, with and
\* without schemas; one valid example with a broken schema; up to MaxDocs
\* documents together
FocusCorpora ==
    {[docs |-> [x \in {d} |-> c], schemas |-> s] :
        d \in DocPaths, c \in UNION {FocusContents(e) : e \in DocPaths}, s \in {"none", "good"}}

Corpora ==
    {k \in FocusCorpora : \A d \in DOMAIN k.docs : k.docs[d] \in FocusContents(d)}
    \cup {[docs |-> [x \in {D1} |-> Obj(RefBare)], schemas |-> s] : s \in {"bad", "invalid"}}
    \cup {[docs |-> f, schemas |-> "good"] :
            f \in UNION {{g \in [ds -> UNION {CoarseContents(e) : e \in DocPaths}] :
                             \A d \in ds : g[d] \in CoarseContents(d)} :
                         ds \in {x \in SUBSET DocPaths : Cardinality(x) >= 2
                                                         /\ Cardinality(x) <= MaxDocs}}}

run_all_checks == flags = {}

\* variant of Selected: with no flag given, no stage is selected
Selected_only_flagged(stage) == stage \in flags

Selected(stage) == run_all_checks \/ stage \in flags

(***************************************************************************)
(* main(): discovery and classification (lines 365-398)                    *)
(***************************************************************************)
\* what one path argument adds to files_to_process
discovered(path_arg) ==
    IF isfile(path_arg) THEN {abspath(path_arg)}
    ELSE IF isdir(path_arg) THEN glob(path_arg, DOT_JSON) \cup glob(path_arg, DOT_JSONLD)
    ELSE {}

discover(args_paths) == sorted(UNION {discovered(args_paths[i]) : i \in 1..Len(args_paths)})

is_example(f) ==
    (\E comps \in {split(normpath(f))} : \E i \in 1..Len(comps) : comps[i] = S("examples"))
    \/ contains(f, EXAMPLE_JSON) \/ contains(f, EXAMPLE_JSONLD)

is_jsonld(f) == endswith(f, DOT_JSONLD)

(***************************************************************************)
(* main(): the summary (lines 496-518)                                     *)
(***************************************************************************)
files_actually_processed_count == Len(files_to_process)

num_jsonld_files_checked == Len(jsonld_files)

\* variant of num_example_files_for_schema: only the examples that have a
\* schema are counted
num_example_files_with_schema ==
    Cardinality({i \in 1..Len(example_files) :
                    map_example_to_schema(example_files[i], S(".")) # None})

num_example_files_for_schema == Len(example_files)

num_example_files_for_context == Len(example_files)

\* the line printed for a stage; a stage that is not selected prints none
summary_line(stage) ==
    IF ~Selected(stage) THEN [shown |-> FALSE, errors |-> 0, of |-> 0]
    ELSE [shown  |-> TRUE,
          errors |-> total[stage],
          of     |-> IF stage = "syntax" THEN files_actually_processed_count
                     ELSE IF stage = "jsonld" THEN num_jsonld_files_checked
                     ELSE IF stage = "schema" THEN num_example_files_for_schema
                     ELSE num_example_files_for_context]

(***************************************************************************)
(* main() as a state machine                                               *)
(***************************************************************************)
NoCall == [fn |-> "none", file |-> <<>>, ok |-> TRUE, msg |-> <<>>, raised |-> FALSE,
           load |-> NoLoad, counted |-> FALSE, binding |-> None]

Call(fn, file, r, binding) ==
    [fn |-> fn, file |-> file, ok |-> r.ok, msg |-> r.msg, raised |-> r.raised,
     load |-> r.load, counted |-> ~r.raised /\ ~r.ok, binding |-> binding]

NoSummary == [s \in Stages |-> [shown |-> FALSE, errors |-> 0, of |-> 0]]

subset(stage) ==
    IF stage = "syntax" THEN files_to_process
    ELSE IF stage = "jsonld" THEN jsonld_files
    ELSE example_files

after(stage) ==
    IF stage = "syntax" THEN "jsonld"
    ELSE IF stage = "jsonld" THEN "schema"
    ELSE IF stage = "schema" THEN "context"
    ELSE "summary"

Init ==
    /\ \E k \in Corpora : docs = k.docs /\ schemas = k.schemas
    /\ paths \in ArgLists
    /\ flags \in SUBSET Stages
    /\ pc = "discover"
    /\ files_to_process = <<>>
    /\ example_files = <<>>
    /\ jsonld_files = <<>>
    /\ idx = 1
    /\ current = 0
    /\ total = [s \in Stages |-> 0]
    /\ last = NoCall
    /\ summary = NoSummary
    /\ exit_code = -1
    /\ log = <<>>

\* lines 365-398; with no file found main returns at line 383
Discover ==
    /\ pc = "discover"
    /\ files_to_process' = discover(paths)
    /\ example_files' = SelectSeq(files_to_process', is_example)
    /\ jsonld_files' = SelectSeq(files_to_process', is_jsonld)
    /\ pc' = IF files_to_process' = <<>> THEN "done" ELSE "syntax"
    /\ exit_code' = IF files_to_process' = <<>> THEN 0 ELSE exit_code
    /\ UNCHANGED <<docs, schemas, paths, flags, idx, current, total, last, summary, log>>

\* one turn of a stage's loop: the outcome r of the check on subset[idx]
Counted(fn, r, binding) ==
    /\ idx <= Len(subset(pc))
    /\ \E v \in {r} :
          /\ last' = Call(fn, subset(pc)[idx], v, binding)
          /\ current' = IF v.ok THEN current ELSE current + 1
          /\ log' = Append(log, [stage |-> pc, file |-> subset(pc)[idx], fn |-> fn,
                                 counted |-> ~v.ok])
    /\ idx' = idx + 1
    /\ UNCHANGED <<docs, schemas, paths, flags, pc, files_to_process, example_files,
                   jsonld_files, total, summary, exit_code>>

\* lines 405-411
SyntaxStep ==
    /\ pc = "syntax" /\ Selected("syntax") /\ idx <= Len(files_to_process)
    /\ Counted("validate_json_syntax", validate_json_syntax(files_to_process[idx]), None)

\* lines 425-431
JsonldStep ==
    /\ pc = "jsonld" /\ Selected("jsonld") /\ idx <= Len(jsonld_files)
    /\ Counted("validate_jsonld_structure", validate_jsonld_structure(jsonld_files[idx]), None)

\* lines 445-464: an example with no schema is skipped
SchemaStep ==
    /\ pc = "schema" /\ Selected("schema") /\ idx <= Len(example_files)
    /\ \E schema_file \in {map_example_to_schema(example_files[idx], S("."))} :
           IF schema_file # None
           THEN Counted("validate_with_schema",
                        validate_with_schema(example_files[idx], schema_file), schema_file)
           ELSE Counted("map_example_to_schema", Ret(TRUE, <<>>, NoLoad), None)

\* lines 478-487
ContextStep ==
    /\ pc = "context" /\ Selected("context") /\ idx <= Len(example_files)
    /\ \E r \in {check_context_utilization(example_files[idx], S("."))} :
          ~r.raised /\ Counted("check_context_utilization", r, None)

\* an exception leaves check_context_utilization and main: the interpreter
\* prints the traceback and the process ends with status 1
ContextCrash ==
    /\ pc = "context" /\ Selected("context") /\ idx <= Len(example_files)
    /\ \E r \in {check_context_utilization(example_files[idx], S("."))} :
          r.raised /\ last' = Call("check_context_utilization", example_files[idx], r, None)
    /\ log' = Append(log, [stage |-> pc, file |-> example_files[idx],
                           fn |-> "check_context_utilization", counted |-> FALSE])
    /\ pc' = "crashed"
    /\ exit_code' = 1
    /\ UNCHANGED <<docs, schemas, paths, flags, files_to_process, example_files,
                   jsonld_files, idx, current, total, summary>>

\* the end of a selected stage's loop: total_*_errors += current_*_errors
StageDone ==
    /\ pc \in Stages /\ Selected(pc) /\ idx > Len(subset(pc))
    /\ total' = [total EXCEPT ![pc] = @ + current]
    /\ current' = 0
    /\ idx' = 1
    /\ pc' = after(pc)
    /\ UNCHANGED <<docs, schemas, paths, flags, files_to_process, example_files,
                   jsonld_files, last, summary, exit_code, log>>

\* a stage whose flag is not selected
StageSkip ==
    /\ pc \in Stages /\ ~Selected(pc)
    /\ pc' = after(pc)
    /\ UNCHANGED <<docs, schemas, paths, flags, files_to_process, example_files,
                   jsonld_files, idx, current, total, last, summary, exit_code, log>>

\* lines 494-525, then main returns: the process ends with status 0
Summary ==
    /\ pc = "summary"
    /\ summary' = [s \in Stages |-> summary_line(s)]
    /\ pc' = "done"
    /\ exit_code' = 0
    /\ UNCHANGED <<docs, schemas, paths, flags, files_to_process, example_files,
                   jsonld_files, idx, current, total, last, log>>

Next ==
    \/ Discover
    \/ SyntaxStep
    \/ JsonldStep
    \/ SchemaStep
    \/ ContextStep
    \/ ContextCrash
    \/ StageDone
    \/ StageSkip
    \/ Summary

Spec == Init /\ [][Next]_vars

TypeOK ==
    /\ pc \in Stages \cup {"discover", "summary", "done", "crashed"}
    /\ exit_code \in {-1, 0, 1}
    /\ current \in 0..Len(files_to_process)

(***************************************************************************)
(* Properties                                                              *)
(***************************************************************************)
CheckFns == {"validate_json_syntax", "validate_jsonld_structure", "validate_with_schema",
             "check_context_utilization"}

\* a check function was called and handed back its pair
Returned == last.fn \in CheckFns /\ ~last.raised

HasPart(msg, part) == \E i \in 1..Len(msg) : msg[i] = part

Segments(p) == {split(p)[i] : i \in 1..Len(split(p))}

\* C1: after a run of main the process exits non-zero if a selected check
\* counted at least one error, and zero otherwise.
C1_ExitStatus ==
    pc = "done" => (exit_code # 0 <=> \E s \in Stages : Selected(s) /\ total[s] > 0)

\* C2: every check function is total: whatever the file holds, it returns a
\* (success, message) pair and no exception leaves it.
C2_Total == last.fn \in CheckFns => ~last.raised

\* C3 as claimed: the message is empty whenever success is true and
\* non-empty whenever success is false.
C3_MessageEmptyIffSuccess == Returned => (last.ok <=> last.msg = <<>>)

IsUnmappedCall ==
    last.fn = "check_context_utilization" /\ expected_context_name(basename(last.file)) = None

\* C3 as amended: a failure always carries a message; a success carries
\* the empty message, except that check_context_utilization on a file with
\* no entry in the name-to-context table returns success with a WARNING.
C3_MessageAmended ==
    Returned =>
        /\ ~last.ok => last.msg # <<>>
        /\ last.ok => (last.msg = <<>> <=> ~IsUnmappedCall)
        /\ last.ok /\ last.msg # <<>> =>
               last.msg[1] = S("WARNING: No specific expected context mapping for ")

C3_Witness == Returned /\ last.ok /\ last.msg # <<>>

\* the file of the latest call holds an object with a non-empty '@context'
DeclaresContext ==
    /\ content(last.file).kind = "object"
    /\ content(last.file).form \in {"inline", "ref"}

\* C4: with no entry in the name-to-context table (valid syntax, non-empty
\* @context) the context check never produces a hard error: the file is not
\* added to the context error count, whether or not expansion succeeds.
C4_UnmappedNeverError ==
    Returned /\ IsUnmappedCall /\ DeclaresContext => ~last.counted

\* the contexts root, as the loaders spell it
ContextsRoot == join(PROJECT_ROOT_FOR_CONTEXTS, S("contexts"))

\* the file at path x can be opened and parsed
Loadable(x) == isfile(x) /\ content(x).kind # "bad"

\* the loader's call loaded the file at path x, or failed naming the
\* reference when nothing is there
LoadedFrom(x) ==
    IF Loadable(x) THEN last.load.ok /\ last.load.path = abspath(x)
    ELSE ~last.load.ok /\ (~exists(x) => HasPart(last.load.err, last.load.url))

\* C5: the document loaders of validate_jsonld_structure and of the
\* unmapped branch of check_context_utilization resolve a reference by the
\* first rule that matches: (1) legacy URL prefix -> file of that name under
\* the contexts root, (2) the reference as an existing path, (3) the
\* reference relative to the referencing document's directory, (4) the
\* reference under the contexts root, (5) else an error naming the reference.
C5_ResolutionOrder ==
    last.load.called /\ last.load.loader \in {"structure", "check"} =>
        LET url == last.load.url
            rel == join(dirname(last.file), url)
            under == join(ContextsRoot, url)
        IN  IF startswith(url, LEGACY_PREFIX)
            THEN LoadedFrom(join(ContextsRoot, split(url)[Len(split(url))]))
            ELSE IF exists(url) THEN LoadedFrom(url)
            ELSE IF exists(rel) THEN LoadedFrom(rel)
            ELSE IF exists(under) THEN LoadedFrom(under)
            ELSE ~last.load.ok /\ HasPart(last.load.err, url)

\* a reference that rule 2 and rule 4 resolve to different files was loaded
\* from the rule-2 file
C5_Witness ==
    /\ last.load.called /\ last.load.loader \in {"structure", "check"}
    /\ ~startswith(last.load.url, LEGACY_PREFIX)
    /\ exists(last.load.url) /\ exists(join(ContextsRoot, last.load.url))
    /\ abspath(last.load.url) # abspath(join(ContextsRoot, last.load.url))
    /\ last.load.ok /\ last.load.path = abspath(last.load.url)

IsMappedCall ==
    last.fn = "check_context_utilization" /\ expected_context_name(basename(last.file)) # None

Mismatch ==
    LET n == normalized_actual_context_path(last.file, content(last.file))
    IN  n = None \/ n # expected_local_context_path(basename(last.file))

\* C6: for a file named in the name-to-context table whose declared @context
\* cannot be normalized, or normalizes to another path than the expected
\* one, check_context_utilization fails with a message that holds the
\* expected path and the actual context (as declared and as resolved),
\* whether expansion succeeds or not.
C6_MismatchFails ==
    Returned /\ IsMappedCall /\ DeclaresContext /\ Mismatch =>
        /\ ~last.ok
        /\ HasPart(last.msg, expected_local_context_path(basename(last.file)))
        /\ HasPart(last.msg, shown(content(last.file)))
        /\ HasPart(last.msg, str(normalized_actual_context_path(last.file, content(last.file))))

\* a mismatch whose expansion succeeded
C6_Witness ==
    /\ Returned /\ IsMappedCall /\ DeclaresContext /\ Mismatch
    /\ normalized_actual_context_path(last.file, content(last.file)) # None
    /\ last.load.ok
    /\ HasPart(last.msg, S(" However, the document expanded successfully with the provided (mismatched) context."))

\* the schema stage looked for the schema of last.file
Located == last.fn \in {"validate_with_schema", "map_example_to_schema"}

HasExampleSuffix(name) == endswith(name, EXAMPLE_JSON) \/ endswith(name, EXAMPLE_JSONLD)

Stem(name) ==
    IF endswith(name, EXAMPLE_JSONLD) THEN SubSeq(name, 1, Len(name) - Len(EXAMPLE_JSONLD))
    ELSE SubSeq(name, 1, Len(name) - Len(EXAMPLE_JSON))

\* <base_dir>/schemas/<stem>.schema.json, with base_dir "." as main passes it
Derived(file) == <<".", Slash, "schemas", Slash>> \o Stem(basename(file)) \o SCHEMA_SUFFIX

\* C7 as claimed: no binding exactly for a name without example suffix and
\* for a derived path that does not exist, else the derived path; no
\* binding never increments the schema error counter.
C7_Binding ==
    Located =>
        /\ last.binding = None <=>
               (~HasExampleSuffix(basename(last.file)) \/ ~exists(Derived(last.file)))
        /\ last.binding # None => last.binding = Derived(last.file)
        /\ last.binding = None => ~last.counted

\* C7 as amended: no binding also for a name that is nothing but the
\* suffix (an empty stem), even when <base_dir>/schemas/.schema.json exists.
C7_BindingAmended ==
    Located =>
        /\ last.binding = None <=>
               \/ ~HasExampleSuffix(basename(last.file))
               \/ Stem(basename(last.file)) = <<>>
               \/ ~exists(Derived(last.file))
        /\ last.binding # None => last.binding = Derived(last.file)
        /\ last.binding = None => ~last.counted

\* an example named "_example.json" whose derived schema path exists
C7_Witness ==
    /\ Located /\ HasExampleSuffix(basename(last.file))
    /\ Stem(basename(last.file)) = <<>>
    /\ exists(Derived(last.file))
    /\ last.binding = None /\ ~last.counted

Listed(seq, f) == \E i \in 1..Len(seq) : seq[i] = f

\* C8: a discovered file is an example iff its absolute path has a segment
\* named "examples" or its own name ends in "_example.json" or
\* "_example.jsonld" (an ancestor directory whose name contains
\* "_example.json" does not count); it is JSON-LD iff its extension is
\* ".jsonld".
C8_Classification ==
    \A i \in 1..Len(files_to_process) :
        LET f == files_to_process[i]
        IN  /\ Listed(example_files, f) <=>
                   (S("examples") \in Segments(abspath(f)) \/ HasExampleSuffix(basename(f)))
            /\ Listed(jsonld_files, f) <=> endswith(basename(f), DOT_JSONLD)

\* C9: each distinct file on disk appears at most once in the final list.
C9_Deduplicated ==
    \A i, j \in 1..Len(files_to_process) :
        i # j => abspath(files_to_process[i]) # abspath(files_to_process[j])

\* the example files the schema stage validates against a schema
Bound == {i \in 1..Len(example_files) : map_example_to_schema(example_files[i], S(".")) # None}

\* C10 as claimed: the schema line's denominator counts only the example
\* files validated against a schema (0 out of 0 with no schema at all).
C10_SchemaDenominator ==
    pc = "done" /\ summary["schema"].shown => summary["schema"].of = Cardinality(Bound)

\* C10 as amended: the schema line's denominator is the number of example
\* files handed to the schema stage, with or without a schema: with no
\* schema for any of them the line reports 0 errors out of that number.
C10_SchemaDenominatorAmended ==
    pc = "done" /\ summary["schema"].shown =>
        /\ summary["schema"].of = Len(example_files)
        /\ summary["schema"].errors = total["schema"]
        /\ Bound = {} => summary["schema"].errors = 0

\* a valid example and no schema: 0 errors out of 1
C10_Witness ==
    /\ pc = "done" /\ summary["schema"].shown
    /\ schemas = "none" /\ Bound = {}
    /\ Len(example_files) = 1
    /\ validate_json_syntax(example_files[1]).ok
    /\ summary["schema"].errors = 0 /\ summary["schema"].of = 1

(***************************************************************************)
(* Progress.  main() is one sequential thread: nothing else is scheduled,  *)
(* so a step that can be taken is taken.                                   *)
(***************************************************************************)
FairSpec == Spec /\ WF_vars(Next)

\* where main() stands, in the order of its text
StageRank(p) ==
    IF p = "syntax" THEN 1
    ELSE IF p = "jsonld" THEN 2
    ELSE IF p = "schema" THEN 3
    ELSE IF p \in {"context", "crashed"} THEN 4
    ELSE IF p \in {"summary", "done"} THEN 5
    ELSE 0

\* the loop of stage s has gone through its whole subset
Complete(s) == StageRank(pc) > StageRank(s)

\* C11: once files are found, whatever fails on whichever file, the run
\* goes on until every selected stage has gone through its whole subset
\* and the summary is printed.
C11_NeverAborts ==
    (pc = "syntax") ~>
        (pc = "done" /\ \A s \in Stages : Selected(s) => Complete(s) /\ summary[s].shown)

\* the files stage s has examined so far, in the order of the calls
Examined(s) ==
    LET OfStage(e) == e.stage = s
        calls == SelectSeq(log, OfStage)
    IN  [i \in 1..Len(calls) |-> calls[i].file]

\* the files stage s is for: all of them, those named '.jsonld', the examples
Applicable(s) ==
    LET IsJsonld(f) == endswith(f, DOT_JSONLD)
    IN  IF s = "syntax" THEN files_to_process
        ELSE IF s = "jsonld" THEN SelectSeq(files_to_process, IsJsonld)
        ELSE example_files

\* the stage's flag is given, or no flag at all
Runs(s) == flags = {} \/ s \in flags

\* C12: a call is made only by a stage that runs and only on a file of its
\* subset; a stage that does not run makes no call, counts nothing and prints
\* no summary line; a stage that runs has, once its loop is over, examined
\* its subset, each file of it once, and prints its line in the summary.
C12_Dispatch ==
    /\ \A i \in 1..Len(log) :
          /\ Runs(log[i].stage)
          /\ \E j \in 1..Len(Applicable(log[i].stage)) :
                Applicable(log[i].stage)[j] = log[i].file
    /\ \A s \in Stages :
          ~Runs(s) => /\ Examined(s) = <<>>
                      /\ total[s] = 0
                      /\ ~summary[s].shown
    /\ \A s \in Stages :
          Runs(s) /\ Complete(s) => Examined(s) = Applicable(s)
    /\ \A s \in Stages :
          Runs(s) /\ pc = "done" /\ files_to_process # <<>> => summary[s].shown

\* two of the four stages selected over a '.json' and a '.jsonld' example
C12_Witness ==
    /\ pc = "done" /\ flags = {"jsonld", "context"}
    /\ Len(files_to_process) = 2 /\ Len(example_files) = 2
    /\ Len(Examined("jsonld")) = 1 /\ Len(Examined("context")) = 2
    /\ Examined("syntax") = <<>> /\ Examined("schema") = <<>>
    /\ summary["jsonld"].shown /\ ~summary["syntax"].shown

\* the checks that begin with validate_json_syntax
SyntaxFirstFns == {"validate_jsonld_structure", "validate_with_schema",
                   "check_context_utilization"}

\* the latest call returned the syntax checker's failure and nothing else
\* was done: no context was asked for, no schema was read
ShortCircuited ==
    /\ ~last.raised /\ ~last.ok /\ last.counted
    /\ last.msg = validate_json_syntax(last.file).msg
    /\ ~last.load.called

\* file f of stage s was counted as an error of s
CountedIn(s, f) == \E i \in 1..Len(log) : log[i].stage = s /\ log[i].file = f /\ log[i].counted

\* the files of stage s that fail validate_json_syntax
Malformed(s) ==
    {Applicable(s)[j] : j \in {k \in 1..Len(Applicable(s)) :
                                  ~validate_json_syntax(Applicable(s)[k]).ok}}

\* C13 as claimed: on a file that fails the syntax check each of the three
\* later checks returns the syntax checker's failure, and every selected
\* stage the file belongs to counts it as an error.
C13_ShortCircuit ==
    /\ last.fn \in SyntaxFirstFns /\ ~validate_json_syntax(last.file).ok => ShortCircuited
    /\ \A s \in Stages :
          Runs(s) /\ Complete(s) =>
              /\ \A f \in Malformed(s) : CountedIn(s, f)
              /\ total[s] >= Cardinality(Malformed(s))

\* the stage calls its check on every file of its subset; the schema stage
\* calls validate_with_schema only on the examples that have a schema
Checks(s, f) == s = "schema" => map_example_to_schema(f, S(".")) # None

\* C13 as amended: on a file that fails the syntax check each of the three
\* later checks returns the syntax checker's failure and the run goes on;
\* every selected stage counts the file as an error, except the schema
\* stage for an example that has no schema: it skips the file uncounted.
C13_ShortCircuitAmended ==
    /\ last.fn \in SyntaxFirstFns /\ ~validate_json_syntax(last.file).ok =>
          ShortCircuited /\ pc # "crashed"
    /\ \A s \in Stages :
          Runs(s) /\ Complete(s) =>
              /\ \A f \in Malformed(s) : CountedIn(s, f) <=> Checks(s, f)
              /\ total[s] >= Cardinality({f \in Malformed(s) : Checks(s, f)})

\* a malformed '.jsonld' example without a schema, all four stages run: one
\* error each for syntax, structure and context, none for schema
C13_Witness ==
    /\ pc = "done" /\ flags = {}
    /\ Len(files_to_process) = 1 /\ Len(jsonld_files) = 1 /\ Len(example_files) = 1
    /\ ~validate_json_syntax(files_to_process[1]).ok
    /\ map_example_to_schema(files_to_process[1], S(".")) = None
    /\ total = [s \in Stages |-> IF s = "schema" THEN 0 ELSE 1]
    /\ last.fn = "check_context_utilization" /\ ShortCircuited

\* check_context_utilization got as far as normalizing a declared reference
Normalizes ==
    /\ Returned /\ IsMappedCall
    /\ content(last.file).kind = "object" /\ content(last.file).form = "ref"

\* C14: for a file named in the name-to-context table, the path the declared
\* reference is normalized to is the path the Context Resolver's document
\* loader (lines 70-93) loads for that reference, and normalization gives
\* no path exactly when that loader fails.
C14_SameResolution ==
    Normalizes =>
        LET n == normalized_actual_context_path(last.file, content(last.file))
            r == local_document_loader(last.file, content(last.file).ref)
        IN  /\ n = None <=> ~r.ok
            /\ r.ok => n = r.path

\* the files of stage s that its check fails, whatever the order of the run
Failing(s) ==
    {j \in 1..Len(Applicable(s)) :
        LET f == Applicable(s)[j]
        IN  IF s = "syntax" THEN ~validate_json_syntax(f).ok
            ELSE IF s = "jsonld" THEN ~validate_jsonld_structure(f).ok
            ELSE IF s = "schema"
                 THEN /\ map_example_to_schema(f, S(".")) # None
                      /\ ~validate_with_schema(f, map_example_to_schema(f, S("."))).ok
            ELSE ~check_context_utilization(f, S(".")).ok}

\* C15: the calls are made stage after stage in the order syntax,
\* structure, schema, context; a stage makes its first call only when every
\* earlier stage that runs has examined its whole subset; within a stage the
\* files come in strictly ascending path order; and the counts of the
\* summary are those of the files each check fails, so that they depend on
\* the corpus and the command line alone and a second run repeats them.
C15_StageOrder ==
    /\ \A i, j \in 1..Len(log) :
          i < j => /\ StageRank(log[i].stage) <= StageRank(log[j].stage)
                   /\ log[i].stage = log[j].stage => less(log[i].file, log[j].file)
    /\ \A i \in 1..Len(log) : \A s \in Stages :
          Runs(s) /\ StageRank(s) < StageRank(log[i].stage) => Examined(s) = Applicable(s)
    /\ \A i \in 1..(Len(files_to_process) - 1) :
          less(files_to_process[i], files_to_process[i + 1])
    /\ pc = "done" =>
          \A s \in Stages :
              summary[s].shown =>
                  /\ summary[s].errors = Cardinality(Failing(s))
                  /\ summary[s].of = Len(Applicable(s))

\* all four stages over two examples, one of them malformed
C15_Witness ==
    /\ pc = "done" /\ flags = {}
    /\ Len(files_to_process) = 2 /\ Len(jsonld_files) = 1 /\ Len(example_files) = 2
    /\ Len(log) = 7
    /\ log[1].stage = "syntax" /\ log[3].stage = "jsonld" /\ log[7].stage = "context"
    /\ less(log[6].file, log[7].file)
    /\ summary["syntax"].errors = 1 /\ summary["syntax"].of = 2

====
